---- MODULE Spec2Model ----
(***************************************************************************)
(* Sitemap generator: the three revisions of generate-sitemap.js.          *)
(*   "cursor"     src/generate-sitemap.js   SDK fetch, cursorAfter paging  *)
(*   "cursor_seo" src/unnamed/part_000      same fetch, category/location  *)
(*                                          pages, urlEntry helper         *)
(*   "offset"     src/unnamed/part_001      REST fetch, limit/offset paging*)
(* One run of main(): validate CONFIG, fetchAllJobs, generateSitemapXML,   *)
(* write public/sitemap.xml and the metadata file, or process.exit(1).     *)
(*                                                                         *)
(* Strings that the code takes apart (slugs, URLs) are sequences of        *)
(* one-character strings; a literal without XML metacharacters, such as    *)
(* the base URL, is kept as one element.  A value that may be undefined is *)
(* <<>> (undefined) or <<v>> (the value v).  Times (ISO strings in the     *)
(* code) are integers: a document's timestamps lie before the run, at -1   *)
(* and -2, and the system clock shows 0 when the run begins.               *)
(***************************************************************************)
EXTENDS Integers, Sequences, FiniteSets, TLC

VARIABLES
  variant,      \* which revision of the script runs
  CONFIG,       \* the four required environment values
  collection,   \* the remote collection, in the store's order
  pc,           \* position of main / fetchAllJobs
  allJobs,      \* fetchAllJobs: the accumulated documents
  truncated,    \* allJobs holds only the first MaxKept documents
  lastId,       \* cursor fetcher: id of the last document seen, or NULL
  offset,       \* offset fetcher: the offset of the next request
  inFlight,     \* the requests awaiting their response, oldest first
  requests,     \* number of requests issued so far (saturates at MaxCount)
  failed,       \* a page request has failed in this run
  wellBehaved,  \* every response so far was the honest page of collection
  dupStreak,    \* consecutive latest responses that brought no unseen id
  lastPage,     \* the documents of the latest response (<<>> before the first)
  returned,     \* offset fetcher: documents returned by all responses so far
  clock,        \* the latest time the run has read from the system clock
  sitemap,      \* main: the rendered document (sequence of <url> entries)
  files,        \* filesystem: content of sitemap.xml and the metadata file
  written       \* files written by this run

vars == <<variant, CONFIG, collection, pc, allJobs, truncated, lastId, offset,
          inFlight, requests, failed, wellBehaved, dupStreak, lastPage,
          returned, clock, sitemap, files, written>>

\* ------------------------------------------------------------------ bounds

\* Largest remote collection (number of documents).
MaxDocs == 3
\* Saturation point of the request counter.
MaxCount == 4
\* Longest fetched sequence handed to the renderer on its own.
MaxJobs == 3
\* Longest fetched sequence rendered against an advancing clock.
MaxStamped == 2
\* Latest time the system clock shows during a run (it starts at 0).
MaxClock == 2
\* Most pieces (characters or entity-like texts) a slug is made of.
MaxPieces == 3

\* ------------------------------------------------------- program constants

\* const limit = 100, scaled to 2 documents per page.
limit == 2
\* if (allJobs.length >= 100000), scaled to 10 = 5 pages (a multiple of limit,
\* as 100000 is of 100).
SafetyLimit == 10

\* let lastId = null
NULL == 0

\* allJobs is kept exactly up to MaxKept documents, which the offset loop can
\* never exceed; the cursor loop has no ceiling, and past MaxKept the model
\* drops further documents and sets `truncated`.
MaxKept == SafetyLimit + limit - 1

Variants == {"cursor", "cursor_seo", "offset"}
IsCursor(v) == v \in {"cursor", "cursor_seo"}

Min(a, b) == IF a < b THEN a ELSE b

\* ------------------------------------------------------------ configuration

required == <<"APPWRITE_PROJECT_ID", "APPWRITE_API_KEY", "DATABASE_ID", "COLLECTION_ID">>

RequiredKeys == {required[i] : i \in 1..Len(required)}

\* process.env values: undefined, the empty string, or a non-empty string.
EnvValues == {<<>>, <<"">>, <<"set">>}

\* JavaScript truthiness of an environment value.
CfgTruthy(v) == v # <<>> /\ v[1] # ""

\* A check that takes only an undefined value as missing.
missing_UndefinedOnly(cfg) == SelectSeq(required, LAMBDA key : cfg[key] = <<>>)

\* required.filter((key) => !CONFIG[key])
missing(cfg) == SelectSeq(required, LAMBDA key : ~CfgTruthy(cfg[key]))

\* ---------------------------------------------------------------- documents

\* job.slug: undefined, "" or a non-empty string.
Slugs == {<<>>, << <<>> >>, << <<"a">> >>, << <<"b", "&">> >>}

\* A filter that tests the slug against undefined only.
SlugTruthy_DefinedOnly(slug) == slug # <<>>

\* (job) => job.slug
SlugTruthy(slug) == slug # <<>> /\ slug[1] # <<>>

\* job.$updatedAt: undefined or a time before the run began.
UpdatedAts == {<<>>, <<-1>>}
\* job.$createdAt: undefined or an earlier time.
CreatedAts == {<<>>, <<-2>>}

\* A document of the collection: $id is its rank in the store's order.
Docs == [id : 1..MaxDocs, slug : Slugs, updatedAt : UpdatedAts, createdAt : CreatedAts]

Doc(id, slug, updatedAt, createdAt) ==
  [id |-> id, slug |-> slug, updatedAt |-> updatedAt, createdAt |-> createdAt]

\* The slug of the i-th document of the store: the four kinds in turn.
StoreSlug(i) ==
  CASE i % 4 = 1 -> << <<"a">> >>
    [] i % 4 = 2 -> <<>>
    [] i % 4 = 3 -> << <<"b", "&">> >>
    [] OTHER -> << <<>> >>

\* Appwrite stamps every document with $createdAt and $updatedAt; the model
\* also lets a document come without $updatedAt.
StoreUpdatedAt(i) == IF i % 2 = 1 THEN <<-1>> ELSE <<>>

\* The collections the store may hold: N distinct documents, 0 <= N <= MaxDocs.
Collections ==
  {[i \in 1..n |-> Doc(i, StoreSlug(i), StoreUpdatedAt(i), <<-2>>)] : n \in 0..MaxDocs}

Ids(jobs) == {jobs[i].id : i \in 1..Len(jobs)}

\* ------------------------------------------------------------- remote store

\* Up to len documents after the first `start` ones, in the store's order.
Window(coll, start, len) ==
  SubSeq(coll, start + 1, Min(Len(coll), start + len))

\* What a store may answer to Query.limit(limit) / ?limit=: any window of the
\* collection of at most limit documents.
Pages(coll) ==
  {Window(coll, s, l) : s \in 0..Len(coll), l \in 0..limit}

\* data.total: not reported, or any count.
Totals == {<<>>} \cup {<<n>> : n \in 0..SafetyLimit}

\* The answer of a well-behaved store to a request.
HonestPage(coll, req) ==
  IF req.kind = "cursor"
    THEN Window(coll, req.at, limit)              \* after document req.at
    ELSE Window(coll, Min(req.at, Len(coll)), limit)

HonestTotals(coll) == {<<>>, <<Len(coll)>>}

\* ------------------------------------------------------------- fetchAllJobs

\* allJobs.push(...documents)
Push(jobs, documents) ==
  IF Len(jobs) + Len(documents) <= MaxKept THEN jobs \o documents ELSE jobs

\* An end-of-collection test that is off by one.
ShortPage_OffByOne(documents) == Len(documents) <= limit

\* documents.length < limit
ShortPage(documents) == Len(documents) < limit

\* data.total && allJobs.length >= data.total
AllFetched(total, jobs) == total # <<>> /\ total[1] # 0 /\ Len(jobs) >= total[1]

\* A loop without the safety check.
SafetyReached_Never(jobs) == FALSE

\* allJobs.length >= 100000
SafetyReached(jobs) == Len(jobs) >= SafetyLimit

\* A catch block that logs and breaks out of the loop with what it has.
OnFetchError_Swallow(v) == "fetched"

\* catch (error) { console.error(...); throw error; }  and main's catch:
\* the position the run is in after a failed page request.
OnFetchError(v) == "exited"

\* The request the loop builds at its top.
BuildRequest(v, last, off) ==
  IF IsCursor(v) THEN [kind |-> "cursor", at |-> last]
                 ELSE [kind |-> "offset", at |-> off]

\* A cursor taken from the first document of the page.
NextCursor_First(documents) == documents[1].id

\* lastId = documents[documents.length - 1].$id
NextCursor(documents) == documents[Len(documents)].id

\* An offset that advances one document per page.
NextOffset_ByOne(off, documents) == off + 1

\* offset += limit
NextOffset(off, documents) == off + limit

\* A loop that stops on an empty page only.
CursorContinues_NonEmpty(documents) == Len(documents) # 0

\* cursor loop body after the response: TRUE when the loop goes round again.
CursorContinues(documents) == Len(documents) # 0 /\ ~ShortPage(documents)

\* offset loop body after the response: TRUE when the loop goes round again.
OffsetContinues(jobs, documents, total) ==
  /\ Len(documents) # 0
  /\ ~AllFetched(total, Push(jobs, documents))
  /\ ~ShortPage(documents)
  /\ ~SafetyReached(Push(jobs, documents))

\* ------------------------------------------------------------- static pages

BASE_URL == "https://hiredup.me"

Page(url, freq, prio) == [url |-> url, changeFrequency |-> freq, priority |-> prio]

\* generate-sitemap.js: STATIC_PAGES (priority as `${page.priority}` prints it)
STATIC_PAGES ==
  << Page(<<>>, "daily", "1"),
     Page(<<"/jobs">>, "hourly", "0.9"),
     Page(<<"/companies">>, "daily", "0.8"),
     Page(<<"/job-seekers">>, "weekly", "0.8"),
     Page(<<"/employers">>, "weekly", "0.8"),
     Page(<<"/talent-search">>, "daily", "0.7"),
     Page(<<"/post-job">>, "monthly", "0.7"),
     Page(<<"/pricing">>, "monthly", "0.6"),
     Page(<<"/salary-estimator">>, "monthly", "0.7"),
     Page(<<"/blog">>, "weekly", "0.7"),
     Page(<<"/resources">>, "weekly", "0.6"),
     Page(<<"/success-stories">>, "weekly", "0.6"),
     Page(<<"/contact">>, "monthly", "0.5"),
     Page(<<"/privacy">>, "yearly", "0.3"),
     Page(<<"/terms">>, "yearly", "0.3"),
     Page(<<"/cookies">>, "yearly", "0.3") >>

\* part_000: STATIC_PAGES, with /jobs/categories added
STATIC_PAGES_SEO ==
  SubSeq(STATIC_PAGES, 1, 2)
    \o << Page(<<"/jobs/categories">>, "weekly", "0.85") >>
    \o SubSeq(STATIC_PAGES, 3, Len(STATIC_PAGES))

CATEGORY_SLUGS ==
  << "software-developer-jobs", "it-jobs", "accounting-finance-jobs",
     "marketing-jobs", "hr-jobs", "sales-jobs", "design-jobs",
     "customer-service-jobs", "engineering-jobs", "data-analyst-jobs",
     "remote-jobs", "fresher-jobs" >>

CATEGORY_PAGES ==
  [i \in 1..Len(CATEGORY_SLUGS) |->
     Page(<<"/jobs/category/", CATEGORY_SLUGS[i]>>, "daily", "0.85")]

LOCATION_SLUGS ==
  << "dhaka", "chittagong", "sylhet", "rajshahi", "remote-bangladesh" >>

LOCATION_PAGES ==
  [i \in 1..Len(LOCATION_SLUGS) |->
     Page(<<"/jobs/location/", LOCATION_SLUGS[i]>>, "daily", "0.8")]

ALL_STATIC_PAGES == STATIC_PAGES_SEO \o CATEGORY_PAGES \o LOCATION_PAGES

\* The static list main hands to generateSitemapXML (part_001 has none).
StaticPagesOf(v) ==
  CASE v = "cursor" -> STATIC_PAGES
    [] v = "cursor_seo" -> ALL_STATIC_PAGES
    [] OTHER -> <<>>

\* ----------------------------------------------------------- XML generation

RECURSIVE ReplaceAll(_, _, _)
\* str.replace(/c/g, r) on a sequence of characters
ReplaceAll(str, c, r) ==
  IF str = <<>> THEN <<>>
  ELSE (IF Head(str) = c THEN r ELSE <<Head(str)>>) \o ReplaceAll(Tail(str), c, r)

\* An escaping that replaces the ampersand last, after the entities of the
\* other four characters have been put in.
escapeXML_AmpLast(str) ==
  IF str = <<>> THEN <<>>
  ELSE LET s1 == ReplaceAll(str, "<", <<"&", "l", "t", ";">>)
           s2 == ReplaceAll(s1, ">", <<"&", "g", "t", ";">>)
           s3 == ReplaceAll(s2, "\"", <<"&", "q", "u", "o", "t", ";">>)
           s4 == ReplaceAll(s3, "'", <<"&", "a", "p", "o", "s", ";">>)
       IN  ReplaceAll(s4, "&", <<"&", "a", "m", "p", ";">>)

\* if (!str) return ""; String(str).replace(/&/g, "&amp;").replace(...)...
escapeXML(str) ==
  IF str = <<>> THEN <<>>
  ELSE LET s1 == ReplaceAll(str, "&", <<"&", "a", "m", "p", ";">>)
           s2 == ReplaceAll(s1, "<", <<"&", "l", "t", ";">>)
           s3 == ReplaceAll(s2, ">", <<"&", "g", "t", ";">>)
           s4 == ReplaceAll(s3, "\"", <<"&", "q", "u", "o", "t", ";">>)
       IN  ReplaceAll(s4, "'", <<"&", "a", "p", "o", "s", ";">>)

\* One <url> element.
UrlElement(loc, lastmod, changefreq, priority) ==
  [loc |-> loc, lastmod |-> lastmod, changefreq |-> changefreq, priority |-> priority]

\* part_000: urlEntry(loc, lastmod, changefreq, priority)
urlEntry(loc, lastmod, changefreq, priority) ==
  UrlElement(escapeXML(loc), lastmod, changefreq, priority)

\* jobs.filter((job) => job.slug)
validJobs(jobs) == SelectSeq(jobs, LAMBDA job : SlugTruthy(job.slug))

\* A job whose lastmod comes from the clock: neither timestamp is there.
FallsBack(job) == job.updatedAt = <<>> /\ job.createdAt = <<>>

\* The clock readings one call of generateSitemapXML makes: `const now`, once,
\* in the cursor revisions; in part_001 `new Date()` in the map callback, once
\* for each valid job that has neither timestamp.
ClockReads(v, jobs) ==
  IF IsCursor(v) THEN 1 ELSE Len(SelectSeq(validJobs(jobs), FallsBack))

\* Which of the call's readings the i-th valid job's fallback is.
ReadingOf(v, valid, i) ==
  IF IsCursor(v) THEN 1 ELSE Len(SelectSeq(SubSeq(valid, 1, i), FallsBack))

\* The timestamps tried in the other order.
lastmodOf_CreatedFirst(job, times, k) ==
  IF job.createdAt # <<>> THEN job.createdAt[1]
  ELSE IF job.updatedAt # <<>> THEN job.updatedAt[1]
  ELSE times[k]

\* job.$updatedAt || job.$createdAt || now      (now: the k-th reading)
lastmodOf(job, times, k) ==
  IF job.updatedAt # <<>> THEN job.updatedAt[1]
  ELSE IF job.createdAt # <<>> THEN job.createdAt[1]
  ELSE times[k]

\* staticPages.map(...): every entry carries `now`, the call's one reading.
staticEntries(v, staticPages, times) ==
  [i \in 1..Len(staticPages) |->
     IF v = "cursor_seo"
       THEN urlEntry(<<BASE_URL>> \o staticPages[i].url, times[1],
                     staticPages[i].changeFrequency, staticPages[i].priority)
       ELSE UrlElement(escapeXML(<<BASE_URL>> \o staticPages[i].url), times[1],
                       staticPages[i].changeFrequency, staticPages[i].priority)]

\* validJobs.map(...)
jobEntries(v, valid, times) ==
  [i \in 1..Len(valid) |->
     IF v = "cursor_seo"
       THEN urlEntry(<<BASE_URL, "/jobs/">> \o valid[i].slug[1],
                     lastmodOf(valid[i], times, ReadingOf(v, valid, i)),
                     "daily", "0.8")
       ELSE UrlElement(<<BASE_URL, "/jobs/">> \o escapeXML(valid[i].slug[1]),
                       lastmodOf(valid[i], times, ReadingOf(v, valid, i)),
                       "daily", "0.8")]

\* The two lists spread in the other order.
allUrls_JobsFirst(static, jobs) == jobs \o static

\* [...staticEntries, ...jobEntries]
allUrls(static, jobs) == static \o jobs

\* The <url> elements of the document, in order; times are the values the
\* system clock shows at the call's successive readings.
generateSitemapXML(v, jobs, staticPages, times) ==
  allUrls(staticEntries(v, staticPages, times), jobEntries(v, validJobs(jobs), times))

\* A count of all fetched records.
validCount_All(jobs) == Len(jobs)

\* jobs.filter((j) => j.slug).length
validCount(jobs) == Len(SelectSeq(jobs, LAMBDA j : SlugTruthy(j.slug)))

\* The metadata object main builds (counts only).
Metadata(v, jobs) ==
  IF v = "cursor_seo"
    THEN [static |-> Len(STATIC_PAGES_SEO), category |-> Len(CATEGORY_PAGES),
          location |-> Len(LOCATION_PAGES), jobs |-> validCount(jobs),
          total |-> Len(ALL_STATIC_PAGES) + validCount(jobs)]
    ELSE [totalJobs |-> Len(jobs), validJobs |-> validCount(jobs)]

\* A main without the empty check.
NoJobs_Unchecked(jobs) == FALSE

\* if (jobs.length === 0) throw new Error("No jobs fetched from Appwrite!")
NoJobs(jobs) == Len(jobs) = 0

\* generatedAt: now  -- `now` is not in scope in main of generate-sitemap.js:
\* building the object throws a ReferenceError.
MetadataThrows(v) == v = "cursor"

\* --------------------------------------------------------------- filesystem

\* A sitemap.xml left by an earlier run.
OldSitemap == << UrlElement(<<"stale">>, -3, "daily", "1") >>

MetaFile(v) == IF v = "cursor_seo" THEN "sitemap-meta.json" ELSE "metadata.json"

\* ------------------------------------------------------------- system clock

\* What n successive readings of a clock that shows `from` or later may
\* return: the clock never runs backwards and may advance between any two.
Readings(from, n) ==
  {t \in [1..n -> from..MaxClock] :
     \A i \in 1..n : \A j \in i..n : t[i] <= t[j]}

\* ------------------------------------------------------------------- states

Init ==
  /\ variant \in Variants
  /\ CONFIG \in [RequiredKeys -> EnvValues]
  /\ collection \in Collections
  /\ pc = "start"
  /\ allJobs = <<>>
  /\ truncated = FALSE
  /\ lastId = NULL
  /\ offset = 0
  /\ inFlight = <<>>
  /\ requests = 0
  /\ failed = FALSE
  /\ wellBehaved = TRUE
  /\ dupStreak = 0
  /\ lastPage = <<>>
  /\ returned = 0
  /\ clock = 0
  /\ sitemap = <<>>
  /\ files \in [sitemap : {<<>>, <<OldSitemap>>}, meta : {<<>>}]
  /\ written = {}

fetchVars == <<allJobs, truncated, lastId, offset, inFlight, requests, failed,
               wellBehaved, dupStreak, lastPage, returned>>
fsVars == <<files, written>>
envVars == <<variant, CONFIG, collection>>

\* main: the configuration check; with nothing missing, fetchAllJobs is
\* entered and stands at the top of its loop.
Main_Validate ==
  /\ pc = "start"
  /\ pc' = IF Len(missing(CONFIG)) > 0 THEN "exited" ELSE "loop"
  /\ UNCHANGED <<envVars, fetchVars, clock, sitemap, fsVars>>

\* fetchAllJobs, top of the while loop: build the query and issue the request.
Fetch_Request ==
  /\ pc = "loop"
  /\ inFlight' = Append(inFlight, BuildRequest(variant, lastId, offset))
  /\ requests' = Min(requests + 1, MaxCount)
  /\ pc' = "await"
  /\ UNCHANGED <<envVars, allJobs, truncated, lastId, offset, failed,
                 wellBehaved, dupStreak, lastPage, returned, clock, sitemap,
                 fsVars>>

\* The request rejects (network error) or, in the offset fetcher, answers
\* with a non-ok status: the catch block rethrows and main's handler exits.
Fetch_Fail ==
  /\ pc = "await"
  /\ failed' = TRUE
  /\ inFlight' = Tail(inFlight)
  /\ pc' = OnFetchError(variant)
  /\ UNCHANGED <<envVars, allJobs, truncated, lastId, offset, requests,
                 wellBehaved, dupStreak, lastPage, returned, clock, sitemap,
                 fsVars>>

\* The cursor fetcher's loop body on a response.
Fetch_CursorPage ==
  /\ pc = "await"
  /\ IsCursor(variant)
  /\ \E documents \in Pages(collection) :
       /\ allJobs' = Push(allJobs, documents)
       /\ truncated' = (truncated \/ Len(allJobs) + Len(documents) > MaxKept)
       /\ lastId' = IF CursorContinues(documents)
                      THEN NextCursor(documents) ELSE lastId
       /\ pc' = IF CursorContinues(documents) THEN "loop" ELSE "fetched"
       /\ wellBehaved' = (wellBehaved /\ documents = HonestPage(collection, inFlight[1]))
       /\ lastPage' = documents
  /\ inFlight' = Tail(inFlight)
  /\ UNCHANGED <<envVars, offset, requests, failed, dupStreak, returned, clock,
                 sitemap, fsVars>>

\* The offset fetcher's loop body on an ok response.
Fetch_OffsetPage ==
  /\ pc = "await"
  /\ variant = "offset"
  /\ \E documents \in Pages(collection), total \in Totals :
       /\ allJobs' = Push(allJobs, documents)
       /\ truncated' = (truncated \/ Len(allJobs) + Len(documents) > MaxKept)
       /\ offset' = IF /\ Len(documents) # 0
                       /\ ~AllFetched(total, Push(allJobs, documents))
                       /\ ~ShortPage(documents)
                      THEN NextOffset(offset, documents) ELSE offset
       /\ pc' = IF OffsetContinues(allJobs, documents, total) THEN "loop" ELSE "fetched"
       /\ wellBehaved' = (/\ wellBehaved
                          /\ documents = HonestPage(collection, inFlight[1])
                          /\ total \in HonestTotals(collection))
       /\ dupStreak' = IF Ids(documents) \subseteq Ids(allJobs)
                         THEN dupStreak + 1 ELSE 0
       /\ lastPage' = documents
       /\ returned' = returned + Len(documents)
  /\ inFlight' = Tail(inFlight)
  /\ UNCHANGED <<envVars, lastId, requests, failed, clock, sitemap, fsVars>>

\* main after fetchAllJobs returned: the empty check and generateSitemapXML.
Main_Generate ==
  /\ pc = "fetched"
  /\ IF NoJobs(allJobs)
       THEN pc' = "exited" /\ UNCHANGED <<sitemap, clock>>
       ELSE \E times \in Readings(clock, ClockReads(variant, allJobs)) :
              /\ sitemap' = generateSitemapXML(variant, allJobs,
                                                StaticPagesOf(variant), times)
              /\ clock' = IF Len(times) = 0 THEN clock ELSE times[Len(times)]
              /\ pc' = "mkdir"
  /\ UNCHANGED <<envVars, fetchVars, fsVars>>

\* if (!fs.existsSync(publicDir)) fs.mkdirSync(publicDir, ...)
Main_Mkdir ==
  /\ pc = "mkdir"
  /\ \/ pc' = "write_sitemap"        \* public/ exists, or mkdirSync creates it
     \/ pc' = "exited"               \* public/ is absent and mkdirSync throws
  /\ UNCHANGED <<envVars, fetchVars, clock, sitemap, fsVars>>

\* fs.writeFileSync(sitemapPath, sitemap, "utf8")
Main_WriteSitemap ==
  /\ pc = "write_sitemap"
  /\ \/ /\ files' = [files EXCEPT !.sitemap = <<sitemap>>]
        /\ written' = written \cup {"sitemap.xml"}
        /\ pc' = "write_meta"
     \/ pc' = "exited" /\ UNCHANGED <<files, written>>          \* the write throws
  /\ UNCHANGED <<envVars, fetchVars, clock, sitemap>>

\* const metadata = {...}; fs.writeFileSync(metadataPath, ...)
Main_WriteMetadata ==
  /\ pc = "write_meta"
  /\ IF MetadataThrows(variant)
       THEN pc' = "exited" /\ UNCHANGED <<files, written>>
       ELSE \/ /\ files' = [files EXCEPT !.meta = <<Metadata(variant, allJobs)>>]
               /\ written' = written \cup {MetaFile(variant)}
               /\ pc' = "done"
            \/ pc' = "exited" /\ UNCHANGED <<files, written>>   \* the write throws
  /\ UNCHANGED <<envVars, fetchVars, clock, sitemap>>

Next ==
  \/ Main_Validate
  \/ Fetch_Request
  \/ Fetch_Fail
  \/ Fetch_CursorPage
  \/ Fetch_OffsetPage
  \/ Main_Generate
  \/ Main_Mkdir
  \/ Main_WriteSitemap
  \/ Main_WriteMetadata

Spec == Init /\ [][Next]_vars

\* The event loop runs the script's continuations and every request resolves,
\* with a page or with a failure: main's first step, the issue of the next
\* request and the handling of a response are each taken once enabled.
FairSpec ==
  /\ Spec
  /\ WF_vars(Main_Validate)
  /\ WF_vars(Fetch_Request)
  /\ WF_vars(Fetch_Fail \/ Fetch_CursorPage \/ Fetch_OffsetPage)

\* The rest of main from the return of fetchAllJobs, for any fetched sequence:
\* documents with distinct ids, any slugs and both of Appwrite's timestamps.
FetchedSequences ==
  UNION {{[i \in 1..n |-> Doc(i, sl[i], <<-1>>, <<-2>>)] : sl \in [1..n -> Slugs]} :
           n \in 0..MaxJobs}

InitFetched ==
  /\ variant \in Variants
  /\ CONFIG = [k \in RequiredKeys |-> <<"set">>]
  /\ collection = <<>>
  /\ pc = "fetched"
  /\ allJobs \in FetchedSequences
  /\ truncated = FALSE
  /\ lastId = NULL
  /\ offset = 0
  /\ inFlight = <<>>
  /\ requests = 1
  /\ failed = FALSE
  /\ wellBehaved = FALSE
  /\ dupStreak = 0
  /\ lastPage = <<>>
  /\ returned = 0
  /\ clock = 0
  /\ sitemap = <<>>
  /\ files \in [sitemap : {<<>>, <<OldSitemap>>}, meta : {<<>>}]
  /\ written = {}

NextRender ==
  \/ Main_Generate
  \/ Main_Mkdir
  \/ Main_WriteSitemap
  \/ Main_WriteMetadata

SpecRender == InitFetched /\ [][NextRender]_vars

\* What slugs are made of: the five XML metacharacters, a plain character and
\* texts that already look like entities.
Pieces ==
  { <<"&">>, <<"<">>, <<">">>, <<"\"">>, <<"'">>, <<"a">>,
    <<"&", "a", "m", "p", ";">>, <<"&", "l", "t", ";">> }

RECURSIVE Concat(_)
Concat(ps) == IF ps = <<>> THEN <<>> ELSE Head(ps) \o Concat(Tail(ps))

\* The non-empty slugs of at most MaxPieces pieces.
PieceSlugs ==
  UNION {{Concat(ps) : ps \in [1..n -> Pieces]} : n \in 1..MaxPieces}

\* The rest of main for a fetched sequence of one document with such a slug.
InitEscape ==
  /\ variant \in Variants
  /\ CONFIG = [k \in RequiredKeys |-> <<"set">>]
  /\ collection = <<>>
  /\ pc = "fetched"
  /\ allJobs \in {<<Doc(1, <<slug>>, <<-1>>, <<-2>>)>> : slug \in PieceSlugs}
  /\ truncated = FALSE
  /\ lastId = NULL
  /\ offset = 0
  /\ inFlight = <<>>
  /\ requests = 1
  /\ failed = FALSE
  /\ wellBehaved = FALSE
  /\ dupStreak = 0
  /\ lastPage = <<>>
  /\ returned = 0
  /\ clock = 0
  /\ sitemap = <<>>
  /\ files = [sitemap |-> <<>>, meta |-> <<>>]
  /\ written = {}

SpecEscape == InitEscape /\ [][NextRender]_vars

\* Fetched sequences of documents with or without a slug and with any of the
\* two timestamps present or absent.
StampedSequences ==
  UNION {{[i \in 1..n |-> Doc(i, d[i].slug, d[i].updatedAt, d[i].createdAt)] :
            d \in [1..n -> [slug : {<<>>, << <<"a">> >>},
                            updatedAt : UpdatedAts, createdAt : CreatedAts]]} :
           n \in 0..MaxStamped}

\* The rest of main for such a sequence, the system clock advancing as it may.
InitClock ==
  /\ variant \in Variants
  /\ CONFIG = [k \in RequiredKeys |-> <<"set">>]
  /\ collection = <<>>
  /\ pc = "fetched"
  /\ allJobs \in StampedSequences
  /\ truncated = FALSE
  /\ lastId = NULL
  /\ offset = 0
  /\ inFlight = <<>>
  /\ requests = 1
  /\ failed = FALSE
  /\ wellBehaved = FALSE
  /\ dupStreak = 0
  /\ lastPage = <<>>
  /\ returned = 0
  /\ clock = 0
  /\ sitemap = <<>>
  /\ files = [sitemap |-> <<>>, meta |-> <<>>]
  /\ written = {}

SpecClock == InitClock /\ [][NextRender]_vars

\* ------------------------------------------------------------------- claims

\* fetchAllJobs has returned and main has not yet looked at the result.
Returned == pc = "fetched"

\* main is past fetchAllJobs or has ended.
Running == pc \in {"start", "loop", "await"}

BothFiles == {"sitemap.xml", MetaFile(variant)}

\* Number of records of a sequence that carry a non-empty slug.
WithSlug(jobs) ==
  Cardinality({i \in 1..Len(jobs) : jobs[i].slug # <<>> /\ jobs[i].slug # << <<>> >>})

\* The <url> elements of a document that come from job records.
JobElements(doc) ==
  SelectSeq(doc, LAMBDA e : Len(e.loc) >= 2 /\ e.loc[1] = BASE_URL /\ e.loc[2] = "/jobs/")

\* C1: against a well-behaved store holding N < SafetyLimit distinct records
\* (honest pages of at most limit records, a truthful total where reported),
\* fetchAllJobs returns exactly the N records, each once, in the store's
\* order, in the cursor fetcher and in the offset fetcher.
C1_CompleteFetch ==
  (Returned /\ wellBehaved /\ Len(collection) < SafetyLimit) => allJobs = collection

\* An honest offset run over a collection of one full page and a short one.
C1_Witness ==
  /\ Returned /\ wellBehaved /\ variant = "offset"
  /\ Len(collection) = limit + 1 /\ requests = 2
  /\ allJobs = collection

\* C2: whatever pages the store returns, the collection fetchAllJobs returns
\* holds each record id at most once.
C2_NoDuplicateIds ==
  (Returned /\ ~truncated) => Cardinality(Ids(allJobs)) = Len(allJobs)

\* C3: when every request resolves, the fetch loop eventually ends:
\* fetchAllJobs returns or throws.
C3_FetchTerminates == <>(~Running)

\* C4: in the offset fetcher, once three successive responses each brought
\* only ids already seen, no further request is issued.
C4_StopsAfterThreeDuplicatePages ==
  (variant = "offset" /\ dupStreak >= 3) => pc \notin {"loop", "await"}

\* C5: a run ends either successfully with both artifacts written in this
\* run, or non-zero with neither written.
C5_AllOrNothing ==
  /\ pc = "done" => written = BothFiles
  /\ pc = "exited" => written = {}

\* C6: a failed page request ends the run at once: nothing is in flight or
\* issued afterwards, the process has exited non-zero and no artifact is
\* written, however many pages came before.
C6_FetchFailureIsFatal ==
  failed => /\ pc = "exited"
            /\ inFlight = <<>>
            /\ written = {}
            /\ files.meta = <<>>
            /\ files.sitemap \in {<<>>, <<OldSitemap>>}

\* A failure on the third request, after two full pages were accumulated.
C6_Witness ==
  /\ failed /\ pc = "exited" /\ requests = 3
  /\ Len(allJobs) = 2 * limit /\ written = {}

\* C7: with a required configuration value absent or empty, main exits
\* non-zero before fetchAllJobs: no request is issued and no file written.
C7_ConfigCheckedFirst ==
  (\E k \in RequiredKeys : CONFIG[k] = <<>> \/ CONFIG[k] = <<"">>) =>
     /\ pc \in {"start", "exited"}
     /\ requests = 0 /\ inFlight = <<>>
     /\ written = {} /\ files.meta = <<>>

\* The run has exited on an empty COLLECTION_ID, everything else being set.
C7_Witness ==
  /\ CONFIG["COLLECTION_ID"] = <<"">>
  /\ \A k \in RequiredKeys \ {"COLLECTION_ID"} : CONFIG[k] = <<"set">>
  /\ pc = "exited" /\ requests = 0 /\ written = {}

\* C8: a fetch that completes without error but returns zero records is
\* fatal: main exits non-zero, writes neither artifact and leaves an existing
\* sitemap.xml as it was.
C8_EmptyFetchIsFatal ==
  (Len(allJobs) = 0 /\ ~Running /\ ~Returned) =>
     /\ pc = "exited"
     /\ written = {} /\ files.meta = <<>>
     /\ files.sitemap \in {<<>>, <<OldSitemap>>}

\* The store answered the first request with an empty page; the run has
\* exited and the earlier sitemap.xml is still there.
C8_Witness ==
  /\ requests = 1 /\ ~failed /\ Len(allJobs) = 0 /\ pc = "exited"
  /\ \A k \in RequiredKeys : CONFIG[k] = <<"set">>
  /\ files.sitemap = <<OldSitemap>> /\ written = {}

\* C9: a record whose slug is absent or empty produces no <url> entry in the
\* written document, and the valid-job count written to the metadata file is
\* the number of fetched records with a non-empty slug.
C9_SlugFilter ==
  /\ "sitemap.xml" \in written =>
       LET je == JobElements(files.sitemap[1])
       IN  /\ Len(je) = WithSlug(allJobs)
           /\ \A i \in 1..Len(je) : Len(je[i].loc) > 2
  /\ MetaFile(variant) \in written =>
       IF variant = "cursor_seo"
         THEN files.meta[1].jobs = WithSlug(allJobs)
         ELSE files.meta[1].validJobs = WithSlug(allJobs)

\* Both files written for a fetch of one valid record, one without slug and
\* one with the empty slug.
C9_Witness ==
  /\ pc = "done" /\ written = BothFiles /\ variant = "offset"
  /\ Len(allJobs) = 3 /\ WithSlug(allJobs) = 1
  /\ \E i, j \in 1..3 : allJobs[i].slug = <<>> /\ allJobs[j].slug = << <<>> >>
  /\ files.meta[1].validJobs = 1

\* The index in jobs of the k-th record with a non-empty slug.
NthWithSlug(jobs, k) ==
  CHOOSE i \in 1..Len(jobs) :
    /\ jobs[i].slug # <<>> /\ jobs[i].slug # << <<>> >>
    /\ WithSlug(SubSeq(jobs, 1, i)) = k

\* C10: the <url> entries of the document are one per static page, in the
\* declared order, followed by one per valid job record in fetch order.
C10_StaticThenJobs ==
  "sitemap.xml" \in written =>
    LET doc == files.sitemap[1]
        st == StaticPagesOf(variant)
        n == Len(st)
    IN  /\ Len(doc) = n + WithSlug(allJobs)
        /\ \A i \in 1..n : doc[i].loc = <<BASE_URL>> \o st[i].url
        /\ \A k \in 1..WithSlug(allJobs) :
             doc[n + k].loc = <<BASE_URL, "/jobs/">>
                                \o escapeXML(allJobs[NthWithSlug(allJobs, k)].slug[1])

\* A written document of the static pages followed by two jobs with
\* different slugs, fetched around a record without slug.
C10_Witness ==
  /\ "sitemap.xml" \in written /\ variant = "cursor_seo"
  /\ Len(allJobs) = 3
  /\ allJobs[1].slug = << <<"b", "&">> >> /\ allJobs[2].slug = <<>>
  /\ allJobs[3].slug = << <<"a">> >>
  /\ Len(files.sitemap[1]) = Len(ALL_STATIC_PAGES) + 2

\* The five predefined XML entities and the characters they stand for.
Entities ==
  { [char |-> "&", text |-> <<"&", "a", "m", "p", ";">>],
    [char |-> "<", text |-> <<"&", "l", "t", ";">>],
    [char |-> ">", text |-> <<"&", "g", "t", ";">>],
    [char |-> "\"", text |-> <<"&", "q", "u", "o", "t", ";">>],
    [char |-> "'", text |-> <<"&", "a", "p", "o", "s", ";">>] }

StartsWith(str, pre) == Len(str) >= Len(pre) /\ SubSeq(str, 1, Len(pre)) = pre

RECURSIVE unescapeXML(_)
\* What an XML parser reads back from escaped text: one pass, left to right,
\* each entity giving its character.
unescapeXML(str) ==
  IF str = <<>> THEN <<>>
  ELSE IF \E e \in Entities : StartsWith(str, e.text)
    THEN LET e == CHOOSE x \in Entities : StartsWith(str, x.text)
         IN  <<e.char>> \o unescapeXML(SubSeq(str, Len(e.text) + 1, Len(str)))
    ELSE <<Head(str)>> \o unescapeXML(Tail(str))

\* The characters that may not stand raw in the text of <loc>.
RawMeta(str) == \E i \in 1..Len(str) : str[i] \in {"<", ">", "\"", "'"}

\* C11: the <loc> of every job entry of the written document holds none of
\* < > " ' raw and, read back by an XML parser, is the base URL followed by
\* /jobs/ and the record's slug as fetched, whatever metacharacters or
\* entity-like text the slug holds.
C11_EscapeRoundTrip ==
  "sitemap.xml" \in written =>
    LET je == JobElements(files.sitemap[1])
    IN  /\ Len(je) = WithSlug(allJobs)
        /\ \A k \in 1..Len(je) :
             /\ ~RawMeta(je[k].loc)
             /\ unescapeXML(je[k].loc)
                  = <<BASE_URL, "/jobs/">> \o allJobs[NthWithSlug(allJobs, k)].slug[1]

\* A document written for the slug `&amp;<`: its <loc> ends in `&amp;amp;&lt;`.
C11_Witness ==
  /\ "sitemap.xml" \in written
  /\ Len(allJobs) = 1
  /\ allJobs[1].slug = << <<"&", "a", "m", "p", ";", "<">> >>
  /\ JobElements(files.sitemap[1])[1].loc
       = <<BASE_URL, "/jobs/", "&", "a", "m", "p", ";", "a", "m", "p", ";",
           "&", "l", "t", ";">>

\* C12: in the cursor fetcher as in the offset fetcher, no page request is
\* in flight once SafetyLimit records are accumulated, and fetchAllJobs
\* then returns rather than throws.
C12_RecordCeiling ==
  /\ inFlight # <<>> => Len(allJobs) < SafetyLimit
  /\ (Len(allJobs) >= SafetyLimit /\ ~failed) => pc # "loop"

\* The offset ceiling: 200,000, twice the record ceiling.
OffsetCeiling == 2 * SafetyLimit

\* C14: in the offset fetcher the offset of a request, and the offset the
\* loop holds, never exceed the offset ceiling, whatever the store answers.
C14_OffsetBounded ==
  variant = "offset" =>
    /\ offset <= OffsetCeiling
    /\ \A i \in 1..Len(inFlight) : inFlight[i].at <= OffsetCeiling

\* The request with the largest offset the loop ever issues is in flight:
\* the one after all full pages below the record ceiling.
C14_Witness ==
  /\ variant = "offset" /\ inFlight # <<>>
  /\ inFlight[1].at = SafetyLimit - limit
  /\ Len(allJobs) = SafetyLimit - limit

\* C15: in the offset fetcher, the offset of a request is the number of
\* documents that all earlier responses of the run have returned.
C15_OffsetCountsReturned ==
  (variant = "offset" /\ inFlight # <<>>) => inFlight[1].at = returned

\* The third request, issued after two full pages.
C15_Witness ==
  /\ variant = "offset" /\ inFlight # <<>> /\ requests = 3
  /\ inFlight[1].at = 2 * limit /\ returned = 2 * limit

\* C16: at most one request is in flight at any time; in the cursor fetcher
\* the first request carries no cursor and every later one follows a full
\* page and carries the id of that page's last document.
C16_SequentialCursor ==
  /\ Len(inFlight) <= 1
  /\ (IsCursor(variant) /\ inFlight # <<>>) =>
       IF requests = 1
         THEN inFlight[1].at = NULL
         ELSE /\ Len(lastPage) = limit
              /\ inFlight[1].at = lastPage[Len(lastPage)].id

\* The third request of a cursor run is in flight: the second response ended
\* with document 3 and the request carries 3.
C16_Witness ==
  /\ IsCursor(variant) /\ inFlight # <<>> /\ requests = 3
  /\ Len(lastPage) = limit /\ lastPage[limit].id = 3
  /\ inFlight[1].at = 3

\* C17: in the cursor fetcher a response of fewer than limit documents,
\* empty or not, ends the fetch at once: its documents are appended,
\* fetchAllJobs returns, and no request is issued after it.
C17_ShortPageEndsFetch ==
  /\ [][(IsCursor(variant) /\ pc = "await" /\ ~failed' /\ Len(lastPage') < limit)
          => /\ pc' = "fetched"
             /\ inFlight' = <<>>
             /\ ~truncated' => allJobs' = allJobs \o lastPage']_vars
  /\ [][~Running => (requests' = requests /\ inFlight' = <<>>)]_vars

\* A cursor run has returned after a full page and a page of one document,
\* with the three documents.
C17_Witness ==
  /\ IsCursor(variant) /\ pc = "fetched" /\ requests = 2
  /\ Len(lastPage) = 1 /\ Len(allJobs) = limit + 1
  /\ allJobs[limit + 1] = lastPage[1]

\* The lastmod values of a document that were read from the clock: those of
\* the static pages and of the valid jobs that have neither timestamp.
ClockLastmods(doc, v, jobs) ==
  LET n == Len(StaticPagesOf(v))
  IN  {doc[i].lastmod : i \in 1..n}
        \cup {doc[n + k].lastmod : k \in {j \in 1..WithSlug(jobs) :
                                            FallsBack(jobs[NthWithSlug(jobs, j)])}}

\* C18: the clock advancing as it may within a run, every lastmod of the
\* written document that comes from the clock is one and the same time.
C18_SingleNow ==
  "sitemap.xml" \in written =>
    Cardinality(ClockLastmods(files.sitemap[1], variant, allJobs)) <= 1

\* Which timestamp the code is to take for a record: $updatedAt, else
\* $createdAt, else none (the clock).
Preferred(job) ==
  IF job.updatedAt # <<>> THEN job.updatedAt
  ELSE IF job.createdAt # <<>> THEN job.createdAt
  ELSE <<>>

\* C19: the lastmod of the entry of a valid job is its $updatedAt when it has
\* one, else its $createdAt when it has one, else a time read from the clock
\* during the run.
C19_LastmodPrecedence ==
  "sitemap.xml" \in written =>
    LET doc == files.sitemap[1]
        n == Len(StaticPagesOf(variant))
    IN  /\ Len(doc) = n + WithSlug(allJobs)
        /\ \A k \in 1..WithSlug(allJobs) :
             LET job == allJobs[NthWithSlug(allJobs, k)]
             IN  IF Preferred(job) # <<>>
                   THEN doc[n + k].lastmod = Preferred(job)[1]
                   ELSE doc[n + k].lastmod \in 0..clock

\* A written document for a record with both timestamps, one with $createdAt
\* only and one with neither: the entries carry -1, -2 and a clock time.
C19_Witness ==
  /\ "sitemap.xml" \in written /\ variant = "cursor"
  /\ Len(allJobs) = 2 /\ WithSlug(allJobs) = 2
  /\ allJobs[1].updatedAt = <<-1>> /\ allJobs[1].createdAt = <<-2>>
  /\ allJobs[2].updatedAt = <<>> /\ allJobs[2].createdAt = <<-2>>
  /\ files.sitemap[1][Len(STATIC_PAGES) + 1].lastmod = -1
  /\ files.sitemap[1][Len(STATIC_PAGES) + 2].lastmod = -2

\* C20: in a run that has written the metadata file, the written document
\* has as many <url> entries as the metadata counts: the static pages plus the
\* valid jobs (part_001 has no static pages and records the valid jobs only).
C20_CountsAgree ==
  MetaFile(variant) \in written =>
    LET doc == files.sitemap[1]
        meta == files.meta[1]
    IN  /\ "sitemap.xml" \in written
        /\ IF variant = "cursor_seo"
             THEN /\ Len(doc) = meta.total
                  /\ meta.total = meta.static + meta.category + meta.location + meta.jobs
                  /\ meta.static + meta.category + meta.location
                       = Len(StaticPagesOf(variant))
                  /\ Len(JobElements(doc)) = meta.jobs
             ELSE /\ Len(doc) = Len(StaticPagesOf(variant)) + meta.validJobs
                  /\ Len(JobElements(doc)) = meta.validJobs

\* Both files written by part_000 for a valid record and one without slug:
\* one job entry after the static ones, and a total that says so.
C20_Witness ==
  /\ variant = "cursor_seo" /\ pc = "done" /\ written = BothFiles
  /\ Len(allJobs) = 2 /\ allJobs[1].slug = << <<"a">> >> /\ allJobs[2].slug = <<>>
  /\ Len(files.sitemap[1]) = Len(ALL_STATIC_PAGES) + 1
  /\ files.meta[1].total = Len(ALL_STATIC_PAGES) + 1
  /\ files.meta[1].jobs = 1

====
